---- MODULE Spec2Model ----
(***************************************************************************)
(* Subscription detection of the Treeline "Subscriptions" plugin.          *)
(*                                                                         *)
(* The repository holds two generations of the view component:             *)
(*   - "fuzzy": src/unnamed/part_001 (fuzzy clustering, manual tag path,   *)
(*              reconciliation of detected and tagged subscriptions);      *)
(*   - "plain": src/src/SubscriptionsView.svelte (grouping by the raw      *)
(*              description, no tag path).                                 *)
(*                                                                         *)
(* Modelling conventions                                                   *)
(*   - a text (description, tag) is a sequence of one-character strings;   *)
(*   - a date is a day number; a calendar year has DaysPerYear days; a     *)
(*     date that is SQL NULL (null in JS) is the value NULL, and NULL      *)
(*     dates sort last (the default of DuckDB);                            *)
(*   - a transaction amount is an integer number of tenths of a cent, so   *)
(*     that ROUND(amount, 2) is a real rounding; amounts of subscriptions  *)
(*     are integer cents;                                                  *)
(*   - SQL/JS floating point arithmetic is modelled by exact rationals     *)
(*     [num, den];                                                         *)
(*   - wherever SQL leaves the result open (DISTINCT ON with ties in the   *)
(*     ORDER BY, FIRST() without an order, LAG over equal dates, ORDER BY  *)
(*     ties) the query result is a nondeterministic choice.                *)
(***************************************************************************)
EXTENDS Integers, Sequences, FiniteSets, TLC

VARIABLES
    component,       \* which view component is mounted: "fuzzy" or "plain"
    transactions,    \* the transactions table (set of rows)
    today,           \* CURRENT_DATE, a day number
    subscriptionTag, \* the configured tag for manual subscriptions
    subscriptions,   \* the published subscription list
    isLoading,       \* the loading flag
    pc,              \* position of the detection run: "idle", "autoQuery", "taggedQuery"
    autoDetected,    \* local of the latest run: the auto-detected list
    manualSubs,      \* local of the latest run: the manual list
    outcome,         \* how the latest run ended: "none", "ok", "failed"
    published,       \* TRUE once some run has assigned subscriptions
    grouped,         \* grouped_transactions of the latest auto-detect query:
                     \* the merchant group of every row the query considers
    tagUsed,         \* local of the run: tagToUse, read when the first query resolves
    savedTag,        \* the value stored under "subscriptionTag" in sdk.settings
    mountPc,         \* position of onMount: "loadSettings", "loadHidden", "done"
    hiddenMerchantKeys, \* the hidden merchant keys in memory
    hiddenTable,     \* the merchant keys of sys_plugin_subscriptions
    showHidden,      \* the "show hidden" toggle
    searchQuery,     \* the search text
    visOp,           \* the hide or unhide awaiting sdk.execute, if any
    trip,            \* history: the latest successful hide, the hidden set before it,
                     \* whether a run has published since, whether it was restored
    visOpB,          \* a hide or unhide issued while another may be in flight, with
                     \* its store write and its completion as separate steps
    showSettings,    \* the settings panel is open
    saveOp,          \* the sdk.settings.set awaited by saveSettings, if any
    cursorIndex,     \* the keyboard cursor
    pcB,             \* position of a run started while the run above is in flight
    autoDetectedB,   \* local of that run: the auto-detected list
    tagUsedB,        \* local of that run: tagToUse
    outcomeB,        \* how that run ended: "none", "ok", "failed"
    resultB          \* history: the list that run assigned

settingsVars == <<savedTag, mountPc, showSettings, saveOp>>

visVars == <<hiddenMerchantKeys, hiddenTable, showHidden, searchQuery, visOp, visOpB>>

raceVars == <<pcB, autoDetectedB, tagUsedB, outcomeB, resultB>>

vars == <<component, transactions, today, subscriptionTag, subscriptions,
          isLoading, pc, autoDetected, manualSubs, outcome, published, grouped,
          tagUsed, settingsVars, visVars, trip, raceVars, cursorIndex>>

-----------------------------------------------------------------------------
(* Generic helpers *)

SetMin(S) == CHOOSE x \in S : \A y \in S : x <= y

SetMax(S) == CHOOSE x \in S : \A y \in S : x >= y

Max2(a, b) == IF a >= b THEN a ELSE b

Min2(a, b) == IF a <= b THEN a ELSE b

RECURSIVE SumOver(_, _)
\* sum of f[x] for x in S
SumOver(S, f) ==
    IF S = {} THEN 0
    ELSE LET x == CHOOSE x \in S : TRUE IN f[x] + SumOver(S \ {x}, f)

RECURSIVE Product(_)
\* all functions c on DOMAIN cand with c[d] \in cand[d]
Product(cand) ==
    IF DOMAIN cand = {} THEN { <<>> }
    ELSE LET d == CHOOSE d \in DOMAIN cand : TRUE
             rest == [x \in (DOMAIN cand) \ {d} |-> cand[x]]
         IN  { (d :> v) @@ r : v \in cand[d], r \in Product(rest) }

-----------------------------------------------------------------------------
(* Text functions *)

LowerLetters == <<"a", "b", "c", "x">>

UpperLetters == <<"A", "B", "C", "X">>

UpperChar(c) ==
    IF \E i \in DOMAIN LowerLetters : LowerLetters[i] = c
    THEN UpperLetters[CHOOSE i \in DOMAIN LowerLetters : LowerLetters[i] = c]
    ELSE c

\* SQL UPPER(description)
UPPER(s) == [i \in DOMAIN s |-> UpperChar(s[i])]

\* JS String.prototype.toUpperCase
toUpperCase(s) == [i \in DOMAIN s |-> UpperChar(s[i])]

LowerChar(c) ==
    IF \E i \in DOMAIN UpperLetters : UpperLetters[i] = c
    THEN LowerLetters[CHOOSE i \in DOMAIN UpperLetters : UpperLetters[i] = c]
    ELSE c

\* JS String.prototype.toLowerCase
toLowerCase(s) == [i \in DOMAIN s |-> LowerChar(s[i])]

\* JS s.includes(q)
Includes(s, q) ==
    \E i \in 0..(Len(s) - Len(q)) : SubSeq(s, i + 1, i + Len(q)) = q

\* JS s.split(' ')[0]: the text before the first space (all of s if none)
SplitFirst(s) ==
    IF \E i \in DOMAIN s : s[i] = " "
    THEN SubSeq(s, 1, SetMin({i \in DOMAIN s : s[i] = " "}) - 1)
    ELSE s

Digits == <<"0", "1", "2", "3", "4", "5", "6", "7", "8", "9">>

RECURSIVE Decimal(_)
\* decimal digits of a natural number
Decimal(n) ==
    IF n < 10 THEN << Digits[n + 1] >>
    ELSE Append(Decimal(n \div 10), Digits[(n % 10) + 1])

\* JS Number.prototype.toFixed(2) of an amount given in cents
toFixed2(cents) ==
    Decimal(cents \div 100) \o <<".", Digits[((cents % 100) \div 10) + 1],
                                 Digits[(cents % 10) + 1]>>

(* Jaro-Winkler similarity (DuckDB's jaro_winkler_similarity), as a rational *)

JaroWindow(a, b) == Max2(0, (Max2(Len(a), Len(b)) \div 2) - 1)

RECURSIVE JaroMatch(_, _, _, _)
\* greedy matching: for i = k..Len(a), match a[i] with the first unused equal
\* character of b within the window; the result is the sequence of matched
\* pairs <<i, j>> in order of i
JaroMatch(a, b, k, used) ==
    IF k > Len(a) THEN <<>>
    ELSE LET w == JaroWindow(a, b)
             cand == { j \in DOMAIN b : /\ j \notin used
                                        /\ j >= k - w /\ j <= k + w
                                        /\ b[j] = a[k] }
         IN  IF cand = {} THEN JaroMatch(a, b, k + 1, used)
             ELSE LET j == SetMin(cand)
                  IN  << <<k, j>> >> \o JaroMatch(a, b, k + 1, used \cup {j})

RECURSIVE SortedSeqOf(_)
\* the elements of a set of integers in ascending order
SortedSeqOf(S) ==
    IF S = {} THEN <<>>
    ELSE << SetMin(S) >> \o SortedSeqOf(S \ {SetMin(S)})

\* Jaro similarity as [num, den], 0 <= num <= den
Jaro(a, b) ==
    IF Len(a) = 0 /\ Len(b) = 0 THEN [num |-> 1, den |-> 1]
    ELSE
    LET ms == JaroMatch(a, b, 1, {})
        m  == Len(ms)
        bs == SortedSeqOf({ ms[i][2] : i \in DOMAIN ms })
        halfT == Cardinality({ i \in DOMAIN ms : a[ms[i][1]] # b[bs[i]] }) \div 2
    IN  IF m = 0 THEN [num |-> 0, den |-> 1]
        ELSE [num |-> m * Len(b) * m + m * Len(a) * m + (m - halfT) * Len(a) * Len(b),
              den |-> 3 * Len(a) * Len(b) * m]

CommonPrefix(a, b) ==
    LET lim == IF Len(a) < Len(b) THEN Len(a) ELSE Len(b)
        top == IF lim < 4 THEN lim ELSE 4
        ok  == { k \in 0..top : \A i \in 1..k : a[i] = b[i] }
    IN  SetMax(ok)

\* jaro_winkler_similarity(a, b): the prefix bonus (weight 0.1, at most 4
\* characters) is added when the Jaro similarity exceeds 0.7
jaro_winkler_similarity(a, b) ==
    LET j == Jaro(a, b)
    IN  IF 10 * j.num > 7 * j.den
        THEN [num |-> 10 * j.num + CommonPrefix(a, b) * (j.den - j.num),
              den |-> 10 * j.den]
        ELSE j

-----------------------------------------------------------------------------
(* Calendar and arithmetic used by the queries *)

DaysPerYear == 365

\* DATE_TRUNC('year', CURRENT_DATE)
YearStart(day) == day - (day % DaysPerYear)

\* SQL ROUND(amount, 2) of an amount in tenths of a cent: the amount in cents,
\* halves rounded away from zero
ROUND2(amount) ==
    IF amount >= 0 THEN (amount + 5) \div 10 ELSE -((-amount + 5) \div 10)

\* JS Math.round of the rational num/den (den > 0, num >= 0): halves round up
MathRound(num, den) == (2 * num + den) \div (2 * den)

\* SQL NULL / JS null in a date or day-count column
NULL == -1

\* the rows with a transaction_date
Dated(G) == { t \in G : t.transaction_date # NULL }

RECURSIVE DatesAsc(_)
\* the transaction dates of a set of rows in ascending order (ORDER BY
\* transaction_date inside a window partition)
DatesAsc(G) ==
    IF G = {} THEN <<>>
    ELSE LET t == CHOOSE t \in G : \A u \in G : t.transaction_date <= u.transaction_date
         IN  << t.transaction_date >> \o DatesAsc(G \ {t})

\* DATEDIFF('day', prev_date, transaction_date) of every row with a prev_date,
\* NULL results left out (AVG and STDDEV skip them)
IntervalDays(G) ==
    LET d == DatesAsc(Dated(G)) IN [i \in 1..(Len(d) - 1) |-> d[i + 1] - d[i]]

SeqSum(s) == SumOver(DOMAIN s, s)

SeqSumSq(s) == SumOver(DOMAIN s, [i \in DOMAIN s |-> s[i] * s[i]])

\* the rows that can come first in ORDER BY transaction_date: a row with the
\* earliest date, or any row when none has a date
EarliestRows(G) ==
    IF Dated(G) = {} THEN G
    ELSE { t \in Dated(G) : \A u \in Dated(G) : t.transaction_date <= u.transaction_date }

\* the rows of a window partition G that LAG() gives a prev_date, in every
\* way the order can fall: the dated rows but an earliest one and, when some
\* row has no date, the undated row that follows the last dated one
IntervalRows(G) ==
    IF Dated(G) = {} THEN { {} }
    ELSE { (Dated(G) \ {f}) \cup z :
             f \in EarliestRows(G),
             z \in IF Dated(G) = G THEN { {} } ELSE { {u} : u \in G \ Dated(G) } }

\* MAX(transaction_date) / MIN(transaction_date), NULL when no row has a date
MaxDate(R) ==
    IF Dated(R) = {} THEN NULL ELSE SetMax({ t.transaction_date : t \in Dated(R) })

MinDate(R) ==
    IF Dated(R) = {} THEN NULL ELSE SetMin({ t.transaction_date : t \in Dated(R) })

\* DATEDIFF('day', last, CURRENT_DATE)
DaysSinceLast(last, day) == IF last = NULL THEN NULL ELSE day - last

\* STDDEV(interval_days) < AVG(interval_days) * tenths/10, for n intervals of
\* sum S and sum of squares Q (sample standard deviation, NULL for n = 1)
StddevBelow(S, Q, n, tenths) ==
    /\ n >= 2
    /\ S > 0
    /\ 100 * n * (n * Q - S * S) < tenths * tenths * (n - 1) * S * S

\* mutant: counts the interval rows only
OccurrenceCount_IntervalRows(rows) == Cardinality(rows)

\* COUNT(*) + 1 over the interval rows of a group
OccurrenceCount(rows) == Cardinality(rows) + 1


SumAbsAmount(G) == SumOver(G, [t \in G |-> IF t.amount < 0 THEN -t.amount ELSE t.amount])

-----------------------------------------------------------------------------
(* SUBSCRIPTION_SQL of the fuzzy component (src/unnamed/part_001) *)

SimilarityThresholdTenths == 7

IntervalConsistencyTenths == 5

MinAvgInterval == 5

MaxAvgInterval == 400

MinIntervalRows == 2

norm_amount(t) == ROUND2(t.amount)

upper_desc(t) == UPPER(t.description)

base_transactions(txns) ==
    { t \in txns : t.amount < 0 /\ t.description # <<>> }

\* canonical_merchants: DISTINCT ON (norm_amount) ... ORDER BY norm_amount,
\* transaction_date.  One canonical description per amount, that of a row with
\* the earliest date; among rows sharing that date the choice is open.
canonical_merchants(txns) ==
    LET base == base_transactions(txns)
        amts == { norm_amount(t) : t \in base }
        at(a) == { t \in base : norm_amount(t) = a }
    IN  Product([a \in amts |-> { upper_desc(t) : t \in EarliestRows(at(a)) }])

Similar(a, b) ==
    LET s == jaro_winkler_similarity(a, b)
    IN  10 * s.num > SimilarityThresholdTenths * s.den

\* mutant: every description is its own group
merchant_group_OwnDescription(t, canon) == upper_desc(t)

\* grouped_transactions: the CASE expression
merchant_group(t, canon) ==
    IF Similar(upper_desc(t), canon[norm_amount(t)])
    THEN canon[norm_amount(t)]
    ELSE upper_desc(t)

\* the partitions of merchant_transactions: (merchant_group, norm_amount)
GroupKeys(txns, canon) ==
    { <<merchant_group(t, canon), norm_amount(t)>> : t \in base_transactions(txns) }

GroupMembers(txns, canon, k) ==
    { t \in base_transactions(txns) :
        merchant_group(t, canon) = k[1] /\ norm_amount(t) = k[2] }

\* merchant_stats HAVING clause over the interval rows of one group (COUNT(*)
\* is at least the number of intervals that are not NULL)
Having(G) ==
    LET iv == IntervalDays(G)
        n  == Len(iv)
        S  == SeqSum(iv)
    IN  /\ n >= MinIntervalRows
        /\ S >= MinAvgInterval * n
        /\ S <= MaxAvgInterval * n
        /\ StddevBelow(S, SeqSumSq(iv), n, IntervalConsistencyTenths)

\* one merchant_stats row: group G of key k, mi its rows in merchant_intervals
\* (those with a prev_date), m the value FIRST(mi.merchant)
StatsRow(G, k, mi, m, day) ==
    LET iv == IntervalDays(G)
        last == MaxDate(mi)
    IN  [ merchant         |-> m,
          merchant_key     |-> k[1],
          avg_amount       |-> [num |-> SumAbsAmount(mi), den |-> Cardinality(mi)],
          occurrence_count |-> OccurrenceCount(mi),
          avg_interval     |-> [num |-> SeqSum(iv), den |-> Len(iv)],
          last_charge      |-> last,
          first_charge     |-> MinDate(mi),
          ytd_cost         |-> SumAbsAmount({ t \in Dated(G) : t.transaction_date >= YearStart(day) }),
          days_since_last  |-> DaysSinceLast(last, day) ]

\* the possible merchant_stats rows of one group (none if HAVING rejects it);
\* FIRST(mi.merchant) ranges over the interval rows only
GroupRowSets(G, k, day) ==
    IF ~Having(G) THEN { {} }
    ELSE UNION { { { StatsRow(G, k, mi, t.description, day) } : t \in mi } :
                 mi \in IntervalRows(G) }

RECURSIVE UnionChoices(_)
\* S is a set of sets of row sets; all unions taking one row set from each
UnionChoices(S) ==
    IF S = {} THEN { {} }
    ELSE LET X == CHOOSE X \in S : TRUE
         IN  { x \cup r : x \in X, r \in UnionChoices(S \ {X}) }

\* ORDER BY avg_amount * (365.0 / avg_interval) DESC, as a comparison
AnnualizedGE(r, s) ==
    r.avg_amount.num * r.avg_interval.den * s.avg_amount.den * s.avg_interval.num
      >= s.avg_amount.num * s.avg_interval.den * r.avg_amount.den * r.avg_interval.num

RECURSIVE OrderedByAnnualized(_)
\* the sequences listing the rows of R in ORDER BY order (ties in any order)
OrderedByAnnualized(R) ==
    IF R = {} THEN { <<>> }
    ELSE UNION { { <<r>> \o s : s \in OrderedByAnnualized(R \ {r}) } :
                 r \in { r \in R : \A s \in R : AnnualizedGE(r, s) } }

\* grouped_transactions for the canonical descriptions canon
grouped_transactions(txns, canon) ==
    [ t \in base_transactions(txns) |-> merchant_group(t, canon) ]

\* every result the query can return on the given table once
\* canonical_merchants is canon
SUBSCRIPTION_SQL(txns, day, canon) ==
    UNION { OrderedByAnnualized(R) :
            R \in UnionChoices({ GroupRowSets(GroupMembers(txns, canon, k), k, day) :
                                 k \in GroupKeys(txns, canon) }) }

-----------------------------------------------------------------------------
(* The tagged-transaction query of the fuzzy component *)

\* let subscriptionTag = $state("subscriptions")
DefaultTag == <<"s", "u", "b", "s", "c", "r", "i", "p", "t", "i", "o", "n", "s">>

DefaultAvgInterval == 30

\* COALESCE(g.avg_interval, 30)
CoalesceAvgInterval == 30

RECURSIVE TrimLeft(_)
TrimLeft(s) == IF s # <<>> /\ Head(s) = " " THEN TrimLeft(Tail(s)) ELSE s

RECURSIVE TrimRight(_)
TrimRight(s) ==
    IF s # <<>> /\ s[Len(s)] = " " THEN TrimRight(SubSeq(s, 1, Len(s) - 1)) ELSE s

\* JS String.prototype.trim
Trim(s) == TrimRight(TrimLeft(s))

\* mutant: the tag is used as typed
tagToUse_NoTrim(tag) == tag

\* tagToUse (the state variable only ever holds a string)
tagToUse(tag) == Trim(tag)

RECURSIVE EscapeQuotes(_)
\* tagToUse.replace(/'/g, "''")
EscapeQuotes(s) ==
    IF s = <<>> THEN <<>>
    ELSE IF Head(s) = "'" THEN <<"'", "'">> \o EscapeQuotes(Tail(s))
    ELSE <<Head(s)>> \o EscapeQuotes(Tail(s))

RECURSIVE SqlLiteralValue(_)
\* the value of the SQL string literal '...' with the given content
SqlLiteralValue(s) ==
    IF s = <<>> THEN <<>>
    ELSE IF Head(s) = "'" /\ Len(s) >= 2 /\ s[2] = "'"
         THEN <<"'">> \o SqlLiteralValue(Tail(Tail(s)))
    ELSE <<Head(s)>> \o SqlLiteralValue(Tail(s))

tagged_transactions(txns, tag) ==
    { t \in txns : t.amount < 0 /\ SqlLiteralValue(EscapeQuotes(tag)) \in t.tags }

TaggedKeys(txns, tag) == { UPPER(t.description) : t \in tagged_transactions(txns, tag) }

TaggedMembers(txns, tag, k) ==
    { t \in tagged_transactions(txns, tag) : UPPER(t.description) = k }

\* one row of the final SELECT: group G of key k, wi its rows in
\* with_intervals (those with a prev_date), m the value FIRST(merchant)
TaggedRow(G, k, wi, m, day) ==
    LET iv == IntervalDays(G)
        last == MaxDate(wi)
    IN  [ merchant         |-> m,
          merchant_key     |-> k,
          avg_amount       |-> [num |-> SumAbsAmount(wi), den |-> Cardinality(wi)],
          occurrence_count |-> OccurrenceCount(wi),
          avg_interval     |-> IF Len(iv) = 0
                               THEN [num |-> CoalesceAvgInterval, den |-> 1]
                               ELSE [num |-> SeqSum(iv), den |-> Len(iv)],
          last_charge      |-> last,
          first_charge     |-> MinDate(wi),
          ytd_cost         |-> SumAbsAmount({ t \in Dated(G) : t.transaction_date >= YearStart(day) }),
          days_since_last  |-> DaysSinceLast(last, day) ]

\* mutant: a tagged group needs three charges
TaggedRowSets_ThreeCharges(G, k, day) ==
    IF Cardinality(G) < 3 THEN { {} }
    ELSE UNION { { { TaggedRow(G, k, wi, t.description, day) } : t \in wi } :
                 wi \in IntervalRows(G) }

\* the possible rows of one tagged group: none when it has no interval row
TaggedRowSets(G, k, day) ==
    UNION { IF wi = {} THEN { {} }
            ELSE { { TaggedRow(G, k, wi, t.description, day) } : t \in wi } :
            wi \in IntervalRows(G) }

AvgAmountGE(r, s) ==
    r.avg_amount.num * s.avg_amount.den >= s.avg_amount.num * r.avg_amount.den

RECURSIVE OrderedByAvgAmount(_)
\* ORDER BY g.avg_amount DESC (ties in any order)
OrderedByAvgAmount(R) ==
    IF R = {} THEN { <<>> }
    ELSE UNION { { <<r>> \o s : s \in OrderedByAvgAmount(R \ {r}) } :
                 r \in { r \in R : \A s \in R : AvgAmountGE(r, s) } }

\* every result the tagged query can return
TAGGED_SQL(txns, day, tag) ==
    UNION { OrderedByAvgAmount(R) :
            R \in UnionChoices({ TaggedRowSets(TaggedMembers(txns, tag, k), k, day) :
                                 k \in TaggedKeys(txns, tag) }) }

-----------------------------------------------------------------------------
(* Row mapping (rows.map) *)

StaleMinDays == 90

\* JS a || b on strings
OrElse(a, b) == IF a = <<>> THEN b ELSE a

\* mutant: the bucket limits taken as exclusive
Frequency_Exclusive(intervalDays) ==
    IF intervalDays < 8 THEN "weekly"
    ELSE IF intervalDays < 16 THEN "bi-weekly"
    ELSE IF intervalDays < 35 THEN "monthly"
    ELSE IF intervalDays < 100 THEN "quarterly"
    ELSE IF intervalDays < 200 THEN "semi-annual"
    ELSE "annual"


Frequency(intervalDays) ==
    IF intervalDays <= 8 THEN "weekly"
    ELSE IF intervalDays <= 16 THEN "bi-weekly"
    ELSE IF intervalDays <= 35 THEN "monthly"
    ELSE IF intervalDays <= 100 THEN "quarterly"
    ELSE IF intervalDays <= 200 THEN "semi-annual"
    ELSE "annual"

\* mutant: no floor of 90 days
StaleThreshold_NoFloor(intervalDays) == intervalDays * 2

\* Math.max(intervalDays * 2, 90)
StaleThreshold(intervalDays) == Max2(intervalDays * 2, StaleMinDays)

\* Math.round(avg_amount * 100) / 100, in cents (avg_amount in tenths of a cent)
AmountCents(avg) == MathRound(avg.num, 10 * avg.den)

\* Math.round(avg_amount * (365 / intervalDays) * 100) / 100, in cents;
\* 365 / 0 is Infinity in JS, and so is the result
AnnualCost(avg, intervalDays) ==
    IF intervalDays = 0 THEN [finite |-> FALSE, cents |-> 0]
    ELSE [finite |-> TRUE,
          cents  |-> MathRound(DaysPerYear * avg.num, 10 * avg.den * intervalDays)]

\* the callback of rows.map for the auto-detect query
AutoSubscription(row) ==
    LET merchant == OrElse(row.merchant, <<>>)
        intervalDays == MathRound(row.avg_interval.num, row.avg_interval.den)
    IN  [ merchant         |-> merchant,
          merchant_key     |-> OrElse(row.merchant_key, toUpperCase(merchant)),
          amount           |-> AmountCents(row.avg_amount),
          frequency        |-> Frequency(intervalDays),
          interval_days    |-> intervalDays,
          occurrence_count |-> row.occurrence_count,
          annual_cost      |-> AnnualCost(row.avg_amount, intervalDays),
          ytd_cost         |-> MathRound(row.ytd_cost, 10),
          last_charge      |-> row.last_charge,
          first_charge     |-> row.first_charge,
          days_since_last  |-> row.days_since_last,
          is_stale         |-> row.days_since_last > StaleThreshold(intervalDays),
          is_manual        |-> FALSE ]

\* the callback of taggedRows.map; row[4] || 30 replaces a zero average
ManualSubscription(row) ==
    LET merchant == OrElse(row.merchant, <<>>)
        avg_interval == IF row.avg_interval.num = 0
                        THEN [num |-> DefaultAvgInterval, den |-> 1]
                        ELSE row.avg_interval
        intervalDays == MathRound(avg_interval.num, avg_interval.den)
    IN  [ merchant         |-> merchant,
          merchant_key     |-> OrElse(row.merchant_key, toUpperCase(merchant)),
          amount           |-> AmountCents(row.avg_amount),
          frequency        |-> Frequency(intervalDays),
          interval_days    |-> intervalDays,
          occurrence_count |-> row.occurrence_count,
          annual_cost      |-> AnnualCost(row.avg_amount, intervalDays),
          ytd_cost         |-> MathRound(row.ytd_cost, 10),
          last_charge      |-> row.last_charge,
          first_charge     |-> row.first_charge,
          days_since_last  |-> row.days_since_last,
          is_stale         |-> row.days_since_last > StaleThreshold(intervalDays),
          is_manual        |-> TRUE ]

-----------------------------------------------------------------------------
(* Merge: auto-detected + manual *)

\* `${s.amount.toFixed(2)}|${s.merchant.toUpperCase().split(' ')[0]}`
AmountFirstWord(s) ==
    toFixed2(s.amount) \o <<"|">> \o SplitFirst(toUpperCase(s.merchant))

SeqToSet(q) == { q[i] : i \in DOMAIN q }

\* mutant: marks by merchant_key only, forgetting the amount|first-word rule
markedAutoDetected_KeysOnly(auto, manual) ==
    LET manualKeys == { s.merchant_key : s \in SeqToSet(manual) }
    IN  [ i \in DOMAIN auto |->
            [ auto[i] EXCEPT !.is_manual = auto[i].merchant_key \in manualKeys ] ]

markedAutoDetected(auto, manual) ==
    LET manualKeys == { s.merchant_key : s \in SeqToSet(manual) }
        manualAmountFirstWord == { AmountFirstWord(s) : s \in SeqToSet(manual) }
    IN  [ i \in DOMAIN auto |->
            [ auto[i] EXCEPT !.is_manual =
                \/ auto[i].merchant_key \in manualKeys
                \/ AmountFirstWord(auto[i]) \in manualAmountFirstWord ] ]

\* mutant: filters by merchant_key only
IsUniqueManual_KeysOnly(auto, s) ==
    s.merchant_key \notin { a.merchant_key : a \in SeqToSet(auto) }

IsUniqueManual(auto, s) ==
    LET autoKeys == { a.merchant_key : a \in SeqToSet(auto) }
        autoAmountFirstWord == { AmountFirstWord(a) : a \in SeqToSet(auto) }
    IN  /\ s.merchant_key \notin autoKeys
        /\ AmountFirstWord(s) \notin autoAmountFirstWord

uniqueManual(auto, manual) ==
    LET Keep(s) == IsUniqueManual(auto, s) IN SelectSeq(manual, Keep)

\* subscriptions = [...markedAutoDetected, ...uniqueManual]
Merged(auto, manual) == markedAutoDetected(auto, manual) \o uniqueManual(auto, manual)

-----------------------------------------------------------------------------
(* The plain component (src/src/SubscriptionsView.svelte) *)

PlainConsistencyTenths == 3

plain_base(txns) == { t \in txns : t.amount < 0 /\ t.description # <<>> }

PlainKeys(txns) == { t.description : t \in plain_base(txns) }

PlainMembers(txns, k) == { t \in plain_base(txns) : t.description = k }

PlainHaving(G) ==
    LET iv == IntervalDays(G)
        n  == Len(iv)
        S  == SeqSum(iv)
    IN  /\ n >= MinIntervalRows
        /\ S >= MinAvgInterval * n
        /\ S <= MaxAvgInterval * n
        /\ StddevBelow(S, SeqSumSq(iv), n, PlainConsistencyTenths)

\* one merchant_stats row of the plain query; ytd_spending sums every debit
\* with the same description in the current year
PlainRow(txns, G, k, first, day) ==
    LET mi == G \ {first}
        iv == IntervalDays(G)
        last == SetMax({ t.transaction_date : t \in mi })
    IN  [ merchant         |-> k,
          avg_amount       |-> [num |-> SumAbsAmount(mi), den |-> Cardinality(mi)],
          occurrence_count |-> OccurrenceCount(mi),
          avg_interval     |-> [num |-> SeqSum(iv), den |-> Len(iv)],
          last_charge      |-> last,
          first_charge     |-> SetMin({ t.transaction_date : t \in mi }),
          ytd_cost         |-> SumAbsAmount({ t \in txns : /\ t.amount < 0
                                                           /\ t.description = k
                                                           /\ t.transaction_date >= YearStart(day) }),
          days_since_last  |-> day - last ]

PlainRowSets(txns, G, k, day) ==
    IF ~PlainHaving(G) THEN { {} }
    ELSE { { PlainRow(txns, G, k, f, day) } : f \in EarliestRows(G) }

PLAIN_SQL(txns, day) ==
    UNION { OrderedByAnnualized(R) :
            R \in UnionChoices({ PlainRowSets(txns, PlainMembers(txns, k), k, day) :
                                 k \in PlainKeys(txns) }) }

PlainSubscription(row) ==
    LET intervalDays == MathRound(row.avg_interval.num, row.avg_interval.den)
    IN  [ merchant         |-> row.merchant,
          amount           |-> AmountCents(row.avg_amount),
          frequency        |-> Frequency(intervalDays),
          interval_days    |-> intervalDays,
          occurrence_count |-> row.occurrence_count,
          annual_cost      |-> AnnualCost(row.avg_amount, intervalDays),
          ytd_cost         |-> MathRound(row.ytd_cost, 10),
          last_charge      |-> row.last_charge,
          first_charge     |-> row.first_charge,
          days_since_last  |-> row.days_since_last,
          is_stale         |-> row.days_since_last > StaleThreshold(intervalDays) ]

-----------------------------------------------------------------------------
(* Derived values ($derived) of the fuzzy component *)

isHidden(s) == s.merchant_key \in hiddenMerchantKeys

\* the filter callback of visibleSubscriptions
IsVisible(s) ==
    /\ ~(~showHidden /\ isHidden(s))
    /\ searchQuery # <<>> => Includes(toLowerCase(s.merchant), toLowerCase(searchQuery))

\* mutant: hidden subscriptions are listed whatever the toggle
visibleSubscriptions_ShowsHidden ==
    LET Keep(s) == searchQuery # <<>>
                     => Includes(toLowerCase(s.merchant), toLowerCase(searchQuery))
    IN  SelectSeq(subscriptions, Keep)

visibleSubscriptions == SelectSeq(subscriptions, IsVisible)

\* mutant: stale subscriptions count as active
activeSubscriptions_WithStale ==
    LET Keep(s) == ~isHidden(s) IN SelectSeq(subscriptions, Keep)

activeSubscriptions ==
    LET Keep(s) == ~isHidden(s) /\ ~s.is_stale IN SelectSeq(subscriptions, Keep)

staleSubscriptions ==
    LET Keep(s) == ~isHidden(s) /\ s.is_stale IN SelectSeq(subscriptions, Keep)

activeCount == Len(activeSubscriptions)

staleCount == Len(staleSubscriptions)

\* hiddenMerchantKeys.size
hiddenCount == Cardinality(hiddenMerchantKeys)

RECURSIVE SumAnnual(_)
\* reduce((sum, s) => sum + s.annual_cost, 0); a sum with Infinity is Infinity
SumAnnual(q) ==
    IF q = <<>> THEN [finite |-> TRUE, cents |-> 0]
    ELSE LET rest == SumAnnual(Tail(q))
         IN  IF Head(q).annual_cost.finite /\ rest.finite
             THEN [finite |-> TRUE, cents |-> Head(q).annual_cost.cents + rest.cents]
             ELSE [finite |-> FALSE, cents |-> 0]

totalAnnualCost == SumAnnual(activeSubscriptions)

MonthsPerYear == 12

\* totalAnnualCost / 12, as a fraction of cents
totalMonthlyCost ==
    [finite |-> totalAnnualCost.finite, num |-> totalAnnualCost.cents, den |-> MonthsPerYear]

RECURSIVE SumYtd(_)
\* reduce((sum, s) => sum + s.ytd_cost, 0)
SumYtd(q) == IF q = <<>> THEN 0 ELSE Head(q).ytd_cost + SumYtd(Tail(q))

totalYTDCost ==
    LET Keep(s) == ~isHidden(s) IN SumYtd(SelectSeq(subscriptions, Keep))

\* the filter callback of visibleSubscriptions in the plain component, which
\* hides by merchant
IsVisiblePlain(s) ==
    /\ ~(~showHidden /\ s.merchant \in hiddenMerchantKeys)
    /\ searchQuery # <<>> => Includes(toLowerCase(s.merchant), toLowerCase(searchQuery))

\* sortedSubscriptions.length (sorting keeps the length)
DisplayedCount ==
    IF component = "plain" THEN Len(SelectSeq(subscriptions, IsVisiblePlain))
    ELSE Len(visibleSubscriptions)

\* the body of $effect "keep cursor in bounds": the cursor c with n entries
\* displayed
KeepInBounds(c, n) == IF c >= n THEN Max2(0, n - 1) ELSE c

\* the $effect, run after every change of the state it reads; it is the
\* identity when the list and the cursor are as it left them
CursorEffect == cursorIndex' = KeepInBounds(cursorIndex, DisplayedCount')

-----------------------------------------------------------------------------
(* detectSubscriptions, step by step (one step per await) *)

MapSeq(q, F(_)) == [i \in DOMAIN q |-> F(q[i])]

\* history: a published run after a hide is the re-run of the round trip
TripAfterPublish ==
    IF trip.stage = "hidden" THEN [trip EXCEPT !.rerun = TRUE] ELSE trip

\* the synchronous part of detectSubscriptions(): isLoading = true and the
\* auto-detect query is issued
BeginRun ==
    /\ pc' = "autoQuery"
    /\ isLoading' = TRUE
    /\ autoDetected' = <<>>
    /\ manualSubs' = <<>>
    /\ grouped' = <<>>
    /\ tagUsed' = <<>>
    /\ outcomeB' = "none"
    /\ resultB' = <<>>
    /\ UNCHANGED <<outcome, pcB, autoDetectedB, tagUsedB>>

\* detectSubscriptions() is called (mount, Refresh, data refresh)
StartRun ==
    /\ pc = "idle"
    /\ pcB = "idle"
    /\ BeginRun
    /\ UNCHANGED <<component, transactions, today, subscriptionTag, subscriptions,
                   published, settingsVars, visVars, trip>>
    /\ CursorEffect

\* the auto-detect query resolves (fuzzy component); with an empty tag the
\* run goes on to the merge without another await
AutoQueryResolve ==
    /\ pc = "autoQuery"
    /\ component = "fuzzy"
    /\ \E canon \in canonical_merchants(transactions) :
       \E rows \in SUBSCRIPTION_SQL(transactions, today, canon) :
         LET auto == MapSeq(rows, AutoSubscription)
         IN  /\ autoDetected' = auto
             /\ grouped' = grouped_transactions(transactions, canon)
             /\ tagUsed' = tagToUse(subscriptionTag)
             /\ IF tagToUse(subscriptionTag) # <<>>
                THEN /\ pc' = "taggedQuery"
                     /\ UNCHANGED <<subscriptions, isLoading, outcome, published, trip>>
                ELSE /\ subscriptions' = Merged(auto, <<>>)
                     /\ isLoading' = FALSE
                     /\ pc' = "idle"
                     /\ outcome' = "ok"
                     /\ published' = TRUE
                     /\ trip' = TripAfterPublish
    /\ UNCHANGED <<component, transactions, today, subscriptionTag, manualSubs,
                   settingsVars, visVars, raceVars>>
    /\ CursorEffect

\* the tagged query resolves: map, merge, publish, finally isLoading = false
TaggedQueryResolve ==
    /\ pc = "taggedQuery"
    /\ \E rows \in TAGGED_SQL(transactions, today, tagUsed) :
         LET manual == MapSeq(rows, ManualSubscription)
         IN  /\ manualSubs' = manual
             /\ subscriptions' = Merged(autoDetected, manual)
    /\ isLoading' = FALSE
    /\ pc' = "idle"
    /\ outcome' = "ok"
    /\ published' = TRUE
    /\ trip' = TripAfterPublish
    /\ UNCHANGED <<component, transactions, today, subscriptionTag, autoDetected,
                   grouped, tagUsed, settingsVars, visVars, raceVars>>
    /\ CursorEffect

\* mutant: a failed run clears the list
QueryFail_ClearsList ==
    /\ pc \in {"autoQuery", "taggedQuery"}
    /\ isLoading' = FALSE
    /\ pc' = "idle"
    /\ outcome' = "failed"
    /\ subscriptions' = <<>>
    /\ UNCHANGED <<component, transactions, today, subscriptionTag,
                   autoDetected, manualSubs, published, grouped, tagUsed,
                   settingsVars, visVars, trip, raceVars>>
    /\ CursorEffect

\* a query rejects: catch (toast), finally isLoading = false
QueryFail ==
    /\ pc \in {"autoQuery", "taggedQuery"}
    /\ isLoading' = FALSE
    /\ pc' = "idle"
    /\ outcome' = "failed"
    /\ UNCHANGED <<component, transactions, today, subscriptionTag, subscriptions,
                   autoDetected, manualSubs, published, grouped, tagUsed,
                   settingsVars, visVars, trip, raceVars>>
    /\ CursorEffect

\* the query of the plain component resolves: subscriptions = rows.map(...)
PlainQueryResolve ==
    /\ pc = "autoQuery"
    /\ component = "plain"
    /\ \E rows \in PLAIN_SQL(transactions, today) :
         /\ subscriptions' = MapSeq(rows, PlainSubscription)
         /\ autoDetected' = MapSeq(rows, PlainSubscription)
    /\ grouped' = [ t \in plain_base(transactions) |-> t.description ]
    /\ isLoading' = FALSE
    /\ pc' = "idle"
    /\ outcome' = "ok"
    /\ published' = TRUE
    /\ UNCHANGED <<component, transactions, today, subscriptionTag, manualSubs,
                   tagUsed, settingsVars, visVars, trip, raceVars>>
    /\ CursorEffect

-----------------------------------------------------------------------------
(* A run started while another one is in flight (data refresh, settings *)
(* save): the same function, with locals of its own                      *)

runVars == <<pc, autoDetected, manualSubs, outcome, grouped, tagUsed>>

\* bind:value={subscriptionTag} in the settings panel
EditTag ==
    /\ component = "fuzzy"
    /\ showSettings
    /\ \E tag \in { DefaultTag, <<" ">> } :
         /\ tag # subscriptionTag
         /\ subscriptionTag' = tag
    /\ UNCHANGED <<component, transactions, today, subscriptions, isLoading,
                   published, runVars, settingsVars, visVars, trip, raceVars>>
    /\ CursorEffect

\* the synchronous part of a call made while a run is in flight
BeginRunB ==
    /\ pcB' = "autoQuery"
    /\ isLoading' = TRUE
    /\ autoDetectedB' = <<>>
    /\ tagUsedB' = <<>>
    /\ outcomeB' = "none"
    /\ resultB' = <<>>
    /\ UNCHANGED runVars

StartRunB ==
    /\ component = "fuzzy"
    /\ pc # "idle"
    /\ pcB = "idle"
    /\ BeginRunB
    /\ UNCHANGED <<component, transactions, today, subscriptionTag, subscriptions,
                   published, settingsVars, visVars, trip>>
    /\ CursorEffect

AutoQueryResolveB ==
    /\ pcB = "autoQuery"
    /\ \E canon \in canonical_merchants(transactions) :
       \E rows \in SUBSCRIPTION_SQL(transactions, today, canon) :
         LET auto == MapSeq(rows, AutoSubscription)
         IN  /\ autoDetectedB' = auto
             /\ tagUsedB' = tagToUse(subscriptionTag)
             /\ IF tagToUse(subscriptionTag) # <<>>
                THEN /\ pcB' = "taggedQuery"
                     /\ UNCHANGED <<subscriptions, isLoading, outcomeB, resultB,
                                    published, trip>>
                ELSE /\ subscriptions' = Merged(auto, <<>>)
                     /\ resultB' = Merged(auto, <<>>)
                     /\ isLoading' = FALSE
                     /\ pcB' = "idle"
                     /\ outcomeB' = "ok"
                     /\ published' = TRUE
                     /\ trip' = TripAfterPublish
    /\ UNCHANGED <<component, transactions, today, subscriptionTag, runVars,
                   settingsVars, visVars>>
    /\ CursorEffect

TaggedQueryResolveB ==
    /\ pcB = "taggedQuery"
    /\ \E rows \in TAGGED_SQL(transactions, today, tagUsedB) :
         LET manual == MapSeq(rows, ManualSubscription)
         IN  /\ subscriptions' = Merged(autoDetectedB, manual)
             /\ resultB' = Merged(autoDetectedB, manual)
    /\ isLoading' = FALSE
    /\ pcB' = "idle"
    /\ outcomeB' = "ok"
    /\ published' = TRUE
    /\ trip' = TripAfterPublish
    /\ UNCHANGED <<component, transactions, today, subscriptionTag, runVars,
                   settingsVars, visVars, autoDetectedB, tagUsedB>>
    /\ CursorEffect

QueryFailB ==
    /\ pcB \in {"autoQuery", "taggedQuery"}
    /\ isLoading' = FALSE
    /\ pcB' = "idle"
    /\ outcomeB' = "failed"
    /\ UNCHANGED <<component, transactions, today, subscriptionTag, subscriptions,
                   published, runVars, settingsVars, visVars, trip,
                   autoDetectedB, tagUsedB, resultB>>
    /\ CursorEffect

-----------------------------------------------------------------------------
(* The settings panel: open, cancel, save *)

NoSave == [kind |-> "none", value |-> <<>>]

\* onclick={() => showSettings = true}
OpenSettings ==
    /\ component = "fuzzy"
    /\ ~showSettings
    /\ showSettings' = TRUE
    /\ UNCHANGED <<component, transactions, today, subscriptionTag, subscriptions,
                   isLoading, published, runVars, savedTag, mountPc, saveOp,
                   visVars, trip, raceVars>>
    /\ CursorEffect

\* the Cancel button or a click on the backdrop: showSettings = false
CancelSettings ==
    /\ showSettings
    /\ showSettings' = FALSE
    /\ UNCHANGED <<component, transactions, today, subscriptionTag, subscriptions,
                   isLoading, published, runVars, savedTag, mountPc, saveOp,
                   visVars, trip, raceVars>>
    /\ CursorEffect

\* the Save button: sdk.settings.set("subscriptionTag", subscriptionTag) is
\* issued
saveSettings ==
    /\ showSettings
    /\ saveOp.kind = "none"
    /\ saveOp' = [kind |-> "set", value |-> subscriptionTag]
    /\ UNCHANGED <<component, transactions, today, subscriptionTag, subscriptions,
                   isLoading, published, runVars, savedTag, mountPc, showSettings,
                   visVars, trip, raceVars>>
    /\ CursorEffect

\* sdk.settings.set resolves: showSettings = false and detectSubscriptions()
\* is called, beside the run in flight if there is one (at most two runs are
\* followed)
SaveResolve ==
    /\ saveOp.kind = "set"
    /\ savedTag' = [kind |-> "string", value |-> saveOp.value]
    /\ showSettings' = FALSE
    /\ saveOp' = NoSave
    /\ \/ pc = "idle" /\ pcB = "idle" /\ BeginRun
       \/ pc # "idle" /\ pcB = "idle" /\ BeginRunB
    /\ UNCHANGED <<component, transactions, today, subscriptionTag, subscriptions,
                   published, mountPc, visVars, trip>>
    /\ CursorEffect

\* sdk.settings.set rejects: catch (toast); the panel stays open
SaveReject ==
    /\ saveOp.kind = "set"
    /\ saveOp' = NoSave
    /\ UNCHANGED <<component, transactions, today, subscriptionTag, subscriptions,
                   isLoading, published, runVars, savedTag, mountPc, showSettings,
                   visVars, trip, raceVars>>
    /\ CursorEffect

-----------------------------------------------------------------------------
(* onMount: loadSettings, loadHiddenMerchants *)

detectVars == <<subscriptions, isLoading, published, runVars, raceVars>>

\* sdk.settings.get resolves; only a non-empty string replaces the default
loadSettings ==
    /\ mountPc = "loadSettings"
    /\ subscriptionTag' = IF savedTag.kind = "string" /\ savedTag.value # <<>>
                          THEN savedTag.value
                          ELSE subscriptionTag
    /\ mountPc' = "loadHidden"
    /\ UNCHANGED <<component, transactions, today, savedTag, showSettings, saveOp,
                   detectVars, visVars, trip>>
    /\ CursorEffect

\* sdk.settings.get rejects: the default is kept
LoadSettingsReject ==
    /\ mountPc = "loadSettings"
    /\ mountPc' = "loadHidden"
    /\ UNCHANGED <<component, transactions, today, subscriptionTag, savedTag,
                   showSettings, saveOp, detectVars, visVars, trip>>
    /\ CursorEffect

\* the query resolves; filter(Boolean) drops an empty key
loadHiddenMerchants ==
    /\ mountPc = "loadHidden"
    /\ hiddenMerchantKeys' = { k \in hiddenTable : k # <<>> }
    /\ mountPc' = "done"
    /\ UNCHANGED <<component, transactions, today, subscriptionTag, savedTag,
                   showSettings, saveOp, detectVars, hiddenTable, showHidden,
                   searchQuery, visOp, visOpB, trip>>
    /\ CursorEffect

LoadHiddenReject ==
    /\ mountPc = "loadHidden"
    /\ mountPc' = "done"
    /\ UNCHANGED <<component, transactions, today, subscriptionTag, savedTag,
                   showSettings, saveOp, detectVars, visVars, trip>>
    /\ CursorEffect

-----------------------------------------------------------------------------
(* Hiding and restoring, the toggle and the search box *)

NoOp == [kind |-> "none", subs |-> {}]

\* stage: "idle", "issued" (awaiting sdk.execute), "written" (the statement
\* has run, the promise has not resolved yet), "failed" (history: it rejected)
NoOpB == [kind |-> "none", subs |-> {}, stage |-> "idle"]

\* history: no hide so far, or none that is still being followed
NoTrip == [stage |-> "none", rerun |-> FALSE, subs |-> {}, before |-> {}, during |-> "idle"]

\* history: a hide has just succeeded
TripAfterHide ==
    [stage |-> "hidden", rerun |-> FALSE, subs |-> visOp.subs,
     before |-> hiddenMerchantKeys, during |-> pc]

OpKey == CHOOSE k \in { s.merchant_key : s \in visOp.subs } : TRUE

viewVars == <<component, transactions, today, subscriptionTag, settingsVars,
              detectVars, visOpB>>

\* "Hide" on a listed subscription that is not hidden: sdk.execute is issued
hideSubscription ==
    /\ component = "fuzzy"
    /\ visOp.kind = "none"
    /\ \E i \in DOMAIN visibleSubscriptions :
         /\ ~isHidden(visibleSubscriptions[i])
         /\ visOp' = [kind |-> "hide", subs |-> {visibleSubscriptions[i]}]
    /\ UNCHANGED <<viewVars, hiddenMerchantKeys, hiddenTable, showHidden,
                   searchQuery, trip>>
    /\ CursorEffect

\* mutant: hiding also takes the subscription off the list
HideResolve_DropsEntry ==
    /\ visOp.kind = "hide"
    /\ hiddenTable' = hiddenTable \cup {OpKey}
    /\ hiddenMerchantKeys' = hiddenMerchantKeys \cup {OpKey}
    /\ visOp' = NoOp
    /\ trip' = TripAfterHide
    /\ subscriptions' = LET Keep(s) == s.merchant_key # OpKey
                        IN  SelectSeq(subscriptions, Keep)
    /\ UNCHANGED <<component, transactions, today, subscriptionTag, settingsVars,
                   isLoading, published, runVars, raceVars, showHidden, searchQuery,
                   visOpB>>
    /\ CursorEffect

\* the INSERT resolves: the key is added to the set in memory
HideResolve ==
    /\ visOp.kind = "hide"
    /\ hiddenTable' = hiddenTable \cup {OpKey}
    /\ hiddenMerchantKeys' = hiddenMerchantKeys \cup {OpKey}
    /\ visOp' = NoOp
    /\ trip' = TripAfterHide
    /\ UNCHANGED <<viewVars, showHidden, searchQuery>>
    /\ CursorEffect

\* the statement rejects: catch (toast)
VisReject ==
    /\ visOp.kind # "none"
    /\ visOp' = NoOp
    /\ UNCHANGED <<viewVars, hiddenMerchantKeys, hiddenTable, showHidden,
                   searchQuery, trip>>
    /\ CursorEffect

\* "Restore" on a listed subscription that is hidden
unhideSubscription ==
    /\ component = "fuzzy"
    /\ visOp.kind = "none"
    /\ \E i \in DOMAIN visibleSubscriptions :
         /\ isHidden(visibleSubscriptions[i])
         /\ visOp' = [kind |-> "unhide", subs |-> {visibleSubscriptions[i]}]
    /\ UNCHANGED <<viewVars, hiddenMerchantKeys, hiddenTable, showHidden,
                   searchQuery, trip>>
    /\ CursorEffect

\* the DELETE resolves: the key is removed from the set in memory
UnhideResolve ==
    /\ visOp.kind = "unhide"
    /\ hiddenTable' = hiddenTable \ {OpKey}
    /\ hiddenMerchantKeys' = hiddenMerchantKeys \ {OpKey}
    /\ visOp' = NoOp
    /\ trip' = IF trip.stage = "hidden" /\ trip.subs = visOp.subs
               THEN [trip EXCEPT !.stage = "restored"]
               ELSE NoTrip
    /\ UNCHANGED <<viewVars, showHidden, searchQuery>>
    /\ CursorEffect

\* onclick={() => showHidden = !showHidden}
ToggleShowHidden ==
    /\ component = "fuzzy"
    /\ showHidden' = ~showHidden
    /\ UNCHANGED <<viewVars, hiddenMerchantKeys, hiddenTable, searchQuery, visOp, trip>>
    /\ CursorEffect

SearchTexts == { <<>>, <<"x">> }

\* bind:value={searchQuery}; Escape clears it
SetSearchQuery ==
    /\ component = "fuzzy"
    /\ \E q \in SearchTexts :
         /\ q # searchQuery
         /\ searchQuery' = q
    /\ UNCHANGED <<viewVars, hiddenMerchantKeys, hiddenTable, showHidden, visOp, trip>>
    /\ CursorEffect

-----------------------------------------------------------------------------
(* A hide or unhide called while another may be in flight: the same functions, *)
(* the statement running in the store and the promise resolving being two      *)
(* steps, between which the steps of the other call can fall                   *)

OpKeyB == CHOOSE k \in { s.merchant_key : s \in visOpB.subs } : TRUE

InFlightB == visOpB.stage \in {"issued", "written"}

hideSubscriptionB ==
    /\ component = "fuzzy"
    /\ ~InFlightB
    /\ \E i \in DOMAIN visibleSubscriptions :
         /\ ~isHidden(visibleSubscriptions[i])
         /\ visOpB' = [kind |-> "hide", subs |-> {visibleSubscriptions[i]},
                       stage |-> "issued"]
    /\ UNCHANGED <<component, transactions, today, subscriptionTag, settingsVars,
                   detectVars, hiddenMerchantKeys, hiddenTable, showHidden,
                   searchQuery, visOp, trip>>
    /\ CursorEffect

unhideSubscriptionB ==
    /\ component = "fuzzy"
    /\ ~InFlightB
    /\ \E i \in DOMAIN visibleSubscriptions :
         /\ isHidden(visibleSubscriptions[i])
         /\ visOpB' = [kind |-> "unhide", subs |-> {visibleSubscriptions[i]},
                       stage |-> "issued"]
    /\ UNCHANGED <<component, transactions, today, subscriptionTag, settingsVars,
                   detectVars, hiddenMerchantKeys, hiddenTable, showHidden,
                   searchQuery, visOp, trip>>
    /\ CursorEffect

\* the INSERT ... ON CONFLICT or the DELETE runs in the store
VisWriteB ==
    /\ visOpB.stage = "issued"
    /\ hiddenTable' = IF visOpB.kind = "hide" THEN hiddenTable \cup {OpKeyB}
                      ELSE hiddenTable \ {OpKeyB}
    /\ visOpB' = [visOpB EXCEPT !.stage = "written"]
    /\ UNCHANGED <<component, transactions, today, subscriptionTag, settingsVars,
                   detectVars, hiddenMerchantKeys, showHidden, searchQuery, visOp,
                   trip>>
    /\ CursorEffect

\* the promise resolves: the set in memory is rebuilt from its current value
VisResolveB ==
    /\ visOpB.stage = "written"
    /\ hiddenMerchantKeys' = IF visOpB.kind = "hide"
                             THEN hiddenMerchantKeys \cup {OpKeyB}
                             ELSE hiddenMerchantKeys \ {OpKeyB}
    /\ visOpB' = NoOpB
    /\ UNCHANGED <<component, transactions, today, subscriptionTag, settingsVars,
                   detectVars, hiddenTable, showHidden, searchQuery, visOp, trip>>
    /\ CursorEffect

\* mutant: the set in memory is updated although the statement failed
VisRejectB_UpdatesMemory ==
    /\ visOpB.stage = "issued"
    /\ visOpB' = [visOpB EXCEPT !.stage = "failed"]
    /\ hiddenMerchantKeys' = IF visOpB.kind = "hide"
                             THEN hiddenMerchantKeys \cup {OpKeyB}
                             ELSE hiddenMerchantKeys \ {OpKeyB}
    /\ UNCHANGED <<component, transactions, today, subscriptionTag, settingsVars,
                   detectVars, hiddenTable, showHidden, searchQuery, visOp, trip>>
    /\ CursorEffect

\* the statement rejects without having run: catch (toast)
VisRejectB ==
    /\ visOpB.stage = "issued"
    /\ visOpB' = [visOpB EXCEPT !.stage = "failed"]
    /\ UNCHANGED <<component, transactions, today, subscriptionTag, settingsVars,
                   detectVars, hiddenMerchantKeys, hiddenTable, showHidden,
                   searchQuery, visOp, trip>>
    /\ CursorEffect

-----------------------------------------------------------------------------
(* handleKeyDown (keys reaching the container) and the click on a row; the *)
(* $effect runs on the cursor they set                                     *)

\* "j" or "ArrowDown"
KeyDownJ ==
    /\ cursorIndex' = KeepInBounds(Min2(cursorIndex + 1, DisplayedCount - 1),
                                   DisplayedCount)
    /\ UNCHANGED <<component, transactions, today, subscriptionTag, subscriptions,
                   isLoading, published, runVars, settingsVars, visVars, trip,
                   raceVars>>

\* "k" or "ArrowUp"
KeyDownK ==
    /\ cursorIndex' = KeepInBounds(Max2(cursorIndex - 1, 0), DisplayedCount)
    /\ UNCHANGED <<component, transactions, today, subscriptionTag, subscriptions,
                   isLoading, published, runVars, settingsVars, visVars, trip,
                   raceVars>>

\* onclick={() => cursorIndex = i} on the i-th displayed row
ClickRow ==
    /\ \E i \in 0..(DisplayedCount - 1) :
         cursorIndex' = KeepInBounds(i, DisplayedCount)
    /\ UNCHANGED <<component, transactions, today, subscriptionTag, subscriptions,
                   isLoading, published, runVars, settingsVars, visVars, trip,
                   raceVars>>

-----------------------------------------------------------------------------
(* Next-state relations *)

NextFuzzy == StartRun \/ AutoQueryResolve \/ TaggedQueryResolve \/ QueryFail

NextBoth == StartRun \/ AutoQueryResolve \/ TaggedQueryResolve \/ QueryFail
              \/ PlainQueryResolve

NextMount == loadSettings \/ LoadSettingsReject \/ loadHiddenMerchants
               \/ LoadHiddenReject \/ StartRun \/ AutoQueryResolve
               \/ TaggedQueryResolve \/ QueryFail

NextView == StartRun \/ AutoQueryResolve \/ TaggedQueryResolve \/ QueryFail
              \/ hideSubscription \/ HideResolve \/ VisReject
              \/ unhideSubscription \/ UnhideResolve \/ ToggleShowHidden
              \/ SetSearchQuery

NextRace == StartRun \/ AutoQueryResolve \/ TaggedQueryResolve \/ QueryFail
              \/ OpenSettings \/ CancelSettings \/ EditTag \/ StartRunB
              \/ AutoQueryResolveB \/ TaggedQueryResolveB \/ QueryFailB

NextCache == StartRun \/ AutoQueryResolve \/ TaggedQueryResolve \/ QueryFail
               \/ hideSubscription \/ HideResolve \/ VisReject
               \/ unhideSubscription \/ UnhideResolve \/ ToggleShowHidden
               \/ hideSubscriptionB \/ unhideSubscriptionB \/ VisWriteB
               \/ VisResolveB \/ VisRejectB

NextCursor == StartRun \/ AutoQueryResolve \/ TaggedQueryResolve \/ QueryFail
                \/ PlainQueryResolve \/ hideSubscription \/ HideResolve
                \/ VisReject \/ unhideSubscription \/ UnhideResolve
                \/ ToggleShowHidden \/ SetSearchQuery
                \/ KeyDownJ \/ KeyDownK \/ ClickRow

NextSettings == StartRun \/ AutoQueryResolve \/ TaggedQueryResolve \/ QueryFail
                  \/ OpenSettings \/ CancelSettings \/ EditTag \/ saveSettings
                  \/ SaveResolve \/ SaveReject \/ StartRunB \/ AutoQueryResolveB
                  \/ TaggedQueryResolveB \/ QueryFailB

-----------------------------------------------------------------------------
(* Initial states: the component as mounted, over families of tables *)

Txn(desc, amt, day, tags) ==
    [description |-> desc, amount |-> amt, transaction_date |-> day, tags |-> tags]

RECURSIVE SubsetsUpTo(_, _)
\* the subsets of S with at most k elements
SubsetsUpTo(S, k) ==
    IF k = 0 \/ S = {} THEN { {} }
    ELSE LET x == CHOOSE x \in S : TRUE
         IN  SubsetsUpTo(S \ {x}, k) \cup { T \cup {x} : T \in SubsetsUpTo(S \ {x}, k - 1) }

\* the state after construction, for a given table, clock, tag, stored
\* setting, hidden table and position of onMount
InitView(comp, txns, day, tag, saved, table, mount) ==
    /\ component = comp
    /\ transactions = txns
    /\ today = day
    /\ subscriptionTag = tag
    /\ subscriptions = <<>>
    /\ isLoading = TRUE
    /\ pc = "idle"
    /\ autoDetected = <<>>
    /\ manualSubs = <<>>
    /\ outcome = "none"
    /\ published = FALSE
    /\ grouped = <<>>
    /\ tagUsed = <<>>
    /\ savedTag = saved
    /\ mountPc = mount
    /\ hiddenMerchantKeys = IF mount = "done" THEN table ELSE {}
    /\ hiddenTable = table
    /\ showHidden = FALSE
    /\ searchQuery = <<>>
    /\ visOp = NoOp
    /\ trip = NoTrip
    /\ visOpB = NoOpB
    /\ showSettings = FALSE
    /\ saveOp = NoSave
    /\ cursorIndex = 0
    /\ pcB = "idle"
    /\ autoDetectedB = <<>>
    /\ tagUsedB = <<>>
    /\ outcomeB = "none"
    /\ resultB = <<>>

\* the component once onMount has loaded the tag and an empty hidden table
InitWith(comp, txns, day, tag) ==
    InitView(comp, txns, day, tag, [kind |-> "string", value |-> tag], {}, "done")

(* Family 1: a few charge series of differently written merchants *)

MaxSeries == 2

SeriesDescriptions == { <<"A", "b">>, <<"A", "B", " ", "C">>, <<"X">> }

SeriesAmounts == { -9990, -15994 }

SeriesTags == { {}, {DefaultTag} }

SeriesDates == { {360, 361}, {360, 370, 380}, {365, 375} }

SeriesToday == SetMax(UNION SeriesDates) + 10

Series ==
    [ description : SeriesDescriptions, amount : SeriesAmounts,
      tags : SeriesTags, dates : SeriesDates ]

Charges(s) == { Txn(s.description, s.amount, d, s.tags) : d \in s.dates }

InitMerge ==
    \E SS \in SubsetsUpTo(Series, MaxSeries), tag \in { DefaultTag, <<" ">>, <<>> } :
        InitWith("fuzzy", UNION { Charges(s) : s \in SS }, SeriesToday, tag)

SpecMerge == InitMerge /\ [][NextFuzzy]_vars

(* Family 2: untagged charge series, among them credits *)

MaxClusterSeries == 3

ClusterSeries ==
    [ description : SeriesDescriptions, amount : SeriesAmounts \cup { 5000 },
      tags : { {} }, dates : SeriesDates ]

InitCluster ==
    \E SS \in SubsetsUpTo(ClusterSeries, MaxClusterSeries) :
        InitWith("fuzzy", UNION { Charges(s) : s \in SS }, SeriesToday, DefaultTag)

SpecCluster == InitCluster /\ [][NextFuzzy]_vars

(* Family 3: one merchant at one price, charged at arbitrary intervals, with *)
(* possibly a credit or a debit without description besides; both components *)

MaxGap == 9

MaxGaps == 3

\* a few days into the second year
GateBaseDay == DaysPerYear + 5

GateToday == GateBaseDay + 50

GateDescription == <<"A", "b">>

GateAmount == SetMax(SeriesAmounts)

GapSeqs == UNION { [1..n -> 1..MaxGap] : n \in 0..MaxGaps }

\* the charge dates with the given gaps, starting on the given day
ChargeDates(start, gaps) ==
    { start + SeqSum(SubSeq(gaps, 1, k)) : k \in 0..Len(gaps) }

GateNoise ==
    { {},
      { Txn(GateDescription, 9990, GateBaseDay + 1, {}) },
      { Txn(<<>>, GateAmount, GateBaseDay, {}) } }

\* the charges of the family: written uniformly and untagged (either
\* component), or tagged and written in two letter cases by the parity of
\* the day (fuzzy component)
GateCharges(gaps, tagged) ==
    { Txn(IF tagged /\ d % 2 = 1 THEN UPPER(GateDescription) ELSE GateDescription,
          GateAmount, d, IF tagged THEN {DefaultTag} ELSE {}) :
      d \in ChargeDates(GateBaseDay, gaps) }

InitGate ==
    \E comp \in {"fuzzy", "plain"}, gaps \in GapSeqs, noise \in GateNoise,
       tagged \in BOOLEAN :
        /\ tagged => comp = "fuzzy"
        /\ InitWith(comp, GateCharges(gaps, tagged) \cup noise, GateToday, DefaultTag)

SpecGate == InitGate /\ [][NextBoth]_vars

(* Family 4: one merchant charged two or three times at every interval up to *)
(* MaxInterval and around the range limit, looked at on different days;      *)
(* untagged or tagged, both components                                       *)

MaxInterval == 205

ClassifyGaps == (0..MaxInterval) \cup { MaxAvgInterval, MaxAvgInterval + 1 }

\* the two charges of a tagged pair are written in different letter case
ClassifyShapes ==
    { [comp |-> "fuzzy", n |-> 3, tags |-> {}],
      [comp |-> "fuzzy", n |-> 3, tags |-> {DefaultTag}],
      [comp |-> "fuzzy", n |-> 2, tags |-> {DefaultTag}],
      [comp |-> "plain", n |-> 3, tags |-> {}] }

ClassifyTable(shape, g, extra) ==
    IF shape.n = 2
    THEN { Txn(<<"A", "b">>, GateAmount, GateBaseDay, shape.tags),
           Txn(<<"A", "B">>, GateAmount, GateBaseDay + g, shape.tags) }
    ELSE { Txn(<<"A", "b">>, GateAmount, d, shape.tags) :
             d \in ChargeDates(GateBaseDay, <<g, g + extra>>) }

ClassifyLast(shape, g, extra) ==
    GateBaseDay + (IF shape.n = 2 THEN g ELSE 2 * g + extra)

DaysSince(g) == { 61, StaleMinDays, StaleMinDays + 1, 2 * g, 2 * g + 1, 2 * g + 2, 2 * g + 3 }

InitClassify ==
    \E shape \in ClassifyShapes, g \in ClassifyGaps, extra \in {0, 1} :
      \E since \in DaysSince(g) :
        /\ shape.n = 2 => extra = 0
        /\ shape.n = 3 => g >= 1
        /\ InitWith(shape.comp, ClassifyTable(shape, g, extra),
                    ClassifyLast(shape, g, extra) + since, DefaultTag)

SpecClassify == InitClassify /\ [][NextBoth]_vars

(* Family 5: the component being mounted, over stored settings of several *)
(* types and tables holding charges tagged with the default or another tag *)

MaxMountSeries == 2

OtherTag == <<"x">>

MountSeries ==
    [ description : { <<"A", "b">>, <<"X">> }, amount : { GateAmount },
      tags : { {DefaultTag}, {OtherTag} }, dates : { {360, 361}, {360, 370, 380} } ]

\* what sdk.settings holds: nothing, a string, or a value of another type
MountSaved ==
    { [kind |-> "undefined", value |-> <<>>],
      [kind |-> "string", value |-> <<>>],
      [kind |-> "string", value |-> OtherTag],
      [kind |-> "number", value |-> <<"4", "2">>] }

InitMount ==
    \E SS \in SubsetsUpTo(MountSeries, MaxMountSeries), saved \in MountSaved,
       table \in { {}, { <<"X">> } } :
        InitView("fuzzy", UNION { Charges(s) : s \in SS }, SeriesToday, DefaultTag,
                 saved, table, "loadSettings")

SpecMount == InitMount /\ [][NextMount]_vars

(* Family 6: detected subscriptions, some of them stale, hidden and restored *)

MaxViewSeries == 2

ViewDates == { {360, 370, 380}, {470, 480, 490} }

ViewToday == SetMax(UNION ViewDates) + 10

ViewSeries ==
    [ description : { <<"A", "b">>, <<"X">> }, amount : SeriesAmounts,
      tags : { {} }, dates : ViewDates ]

InitViewing ==
    \E SS \in SubsetsUpTo(ViewSeries, MaxViewSeries) :
        InitWith("fuzzy", UNION { Charges(s) : s \in SS }, ViewToday, DefaultTag)

SpecView == InitViewing /\ [][NextView]_vars

(* Family 7: two runs in flight while the tag is edited *)

MaxRaceSeries == 2

RaceSeries ==
    [ description : { <<"A", "b">>, <<"X">> }, amount : { GateAmount },
      tags : SeriesTags, dates : { {360, 370, 380}, {365, 375} } ]

InitRace ==
    \E SS \in SubsetsUpTo(RaceSeries, MaxRaceSeries), tag \in { DefaultTag, <<" ">> } :
        InitWith("fuzzy", UNION { Charges(s) : s \in SS }, SeriesToday, tag)

SpecRace == InitRace /\ [][NextRace]_vars

(* Family 10: the settings panel opened, the tag edited, saved or not *)

MaxSettingsSeries == 1

InitSettings ==
    \E SS \in SubsetsUpTo(RaceSeries, MaxSettingsSeries) :
        InitWith("fuzzy", UNION { Charges(s) : s \in SS }, SeriesToday, DefaultTag)

SpecSettings == InitSettings /\ [][NextSettings]_vars

(* Family 11: detected subscriptions, one of them possibly hidden in an *)
(* earlier session, hidden and restored by calls that overlap            *)

MaxCacheSeries == 1

CacheSeries ==
    [ description : { <<"A", "b">>, <<"X">> }, amount : { GateAmount },
      tags : { {} }, dates : { {470, 480, 490} } ]

InitCache ==
    \E SS \in SubsetsUpTo(CacheSeries, MaxCacheSeries), table \in { {}, { <<"X">> } } :
        InitView("fuzzy", UNION { Charges(s) : s \in SS }, ViewToday, DefaultTag,
                 [kind |-> "string", value |-> DefaultTag], table, "done")

SpecCache == InitCache /\ [][NextCache]_vars

(* Family 12: up to two detected subscriptions listed in either component, *)
(* the cursor moved by keys and clicks                                     *)

MaxCursorSeries == 2

InitCursor ==
    \E comp \in {"fuzzy", "plain"}, SS \in SubsetsUpTo(CacheSeries, MaxCursorSeries) :
        InitWith(comp, UNION { Charges(s) : s \in SS }, ViewToday, DefaultTag)

SpecCursor == InitCursor /\ [][NextCursor]_vars

(* Family 8: charge series in which a charge has no transaction_date *)

MaxNullSeries == 2

NullSeries ==
    [ description : { <<"A", "b">>, <<"X">> }, amount : { GateAmount },
      tags : SeriesTags,
      dates : { {NULL}, {365, NULL}, {360, 370, 380}, {360, 370, 380, NULL} } ]

InitNull ==
    \E SS \in SubsetsUpTo(NullSeries, MaxNullSeries) :
        InitWith("fuzzy", UNION { Charges(s) : s \in SS }, SeriesToday, DefaultTag)

SpecNull == InitNull /\ [][NextFuzzy]_vars

(* Family 9: one merchant written with and without surrounding blanks and *)
(* in either letter case, beside another merchant at the same price       *)

MaxSpaceSeries == 3

SpaceSeries ==
    [ description : { <<"C">>, <<"X">>, <<"X", " ">>, <<"x">> },
      amount : { GateAmount }, tags : SeriesTags,
      dates : { {360, 370, 380}, {365, 375} } ]

InitSpace ==
    \E SS \in SubsetsUpTo(SpaceSeries, MaxSpaceSeries) :
        InitWith("fuzzy", UNION { Charges(s) : s \in SS }, SeriesToday, DefaultTag)

SpecSpace == InitSpace /\ [][NextFuzzy]_vars

Spec == SpecMerge

-----------------------------------------------------------------------------
(* Properties *)

\* the latest run went through to the assignment of subscriptions, so that
\* autoDetected and manualSubs are the lists that assignment merged
RunPublished == pc = "idle" /\ outcome = "ok"

\* the fallback fingerprint of a subscription: its amount to the cent and the
\* first space-delimited token of its uppercased merchant name
Fingerprint(s) == <<s.amount, SplitFirst(UPPER(s.merchant))>>

SameMerchant(a, b) ==
    a.merchant_key = b.merchant_key \/ Fingerprint(a) = Fingerprint(b)

IgnoringManual(s) == [s EXCEPT !.is_manual = FALSE]

\* C1: reconciliation keeps detected data authoritative.  After a run of the
\* fuzzy component, every auto-detected subscription appears exactly once in
\* the final list, all its fields but is_manual as detected, and its is_manual
\* is true exactly when some manual subscription has the same merchant_key or
\* the same fallback fingerprint.
C1_DetectedAuthoritative ==
    RunPublished =>
      \A i \in DOMAIN autoDetected :
        LET at == { j \in DOMAIN subscriptions :
                      IgnoringManual(subscriptions[j]) = IgnoringManual(autoDetected[i]) }
        IN  /\ Cardinality(at) = 1
            /\ \A j \in at :
                 subscriptions[j].is_manual
                   <=> (\E k \in DOMAIN manualSubs :
                          SameMerchant(manualSubs[k], autoDetected[i]))

\* a detected subscription is marked manual through the fingerprint alone
C1_Witness ==
    /\ RunPublished
    /\ \E i \in DOMAIN autoDetected :
         /\ subscriptions[i].is_manual
         /\ subscriptions[i].occurrence_count = autoDetected[i].occurrence_count
         /\ \A k \in DOMAIN manualSubs :
              manualSubs[k].merchant_key # autoDetected[i].merchant_key

Unmatched(m) ==
    \A i \in DOMAIN autoDetected : ~SameMerchant(autoDetected[i], m)

\* C2: a manual subscription is in the final list exactly when no detected
\* subscription has its merchant_key or its fingerprint; the final list is the
\* detected subscriptions in their order, followed by the unmatched manual
\* ones, unmodified and with is_manual = TRUE.
C2_UnmatchedManualAppended ==
    RunPublished =>
      /\ Len(subscriptions)
           = Len(autoDetected) + Cardinality({ k \in DOMAIN manualSubs : Unmatched(manualSubs[k]) })
      /\ \A i \in DOMAIN autoDetected :
           IgnoringManual(subscriptions[i]) = IgnoringManual(autoDetected[i])
      /\ SubSeq(subscriptions, Len(autoDetected) + 1, Len(subscriptions))
           = SelectSeq(manualSubs, Unmatched)
      /\ \A j \in (Len(autoDetected) + 1)..Len(subscriptions) : subscriptions[j].is_manual

\* one manual subscription was appended after a detected one and another
\* manual subscription was dropped as matched
C2_Witness ==
    /\ RunPublished
    /\ autoDetected # <<>>
    /\ Len(subscriptions) > Len(autoDetected)
    /\ \E k \in DOMAIN manualSubs : ~Unmatched(manualSubs[k])

\* C3 (as claimed): the final list represents no merchant twice.
C3_NoMerchantTwice ==
    RunPublished =>
      \A i, j \in DOMAIN subscriptions :
        i # j => /\ subscriptions[i].merchant_key # subscriptions[j].merchant_key
                 /\ Fingerprint(subscriptions[i]) # Fingerprint(subscriptions[j])

\* the debits: the rows the detection query works on
Debits == { t \in transactions : t.amount < 0 /\ t.description # <<>> }

\* the debits behind a detected subscription: those of its group and, in the
\* fuzzy component, of its price
ChargesOf(s) ==
    IF component = "plain"
    THEN { t \in DOMAIN grouped : grouped[t] = s.merchant }
    ELSE { t \in DOMAIN grouped :
             grouped[t] = s.merchant_key /\ -ROUND2(t.amount) = s.amount }

\* the merchant groups of the store as the latest run formed them
MerchantGroups ==
    { { u \in DOMAIN grouped :
          /\ grouped[u] = grouped[t]
          /\ component = "fuzzy" => ROUND2(u.amount) = ROUND2(t.amount) } :
      t \in DOMAIN grouped }

\* C4: every subscription of the auto-detect path has occurrence_count >= 3,
\* and occurrence_count is the number of charges of its merchant group; so a
\* group of one or two charges is never reported, whatever its dates.
C4_AtLeastThreeCharges ==
    RunPublished =>
      \A i \in DOMAIN autoDetected :
        /\ autoDetected[i].occurrence_count >= 3
        /\ autoDetected[i].occurrence_count = Cardinality(ChargesOf(autoDetected[i]))

\* a group of exactly three charges is reported beside a debit that has no
\* description and is not counted
C4_Witness ==
    /\ RunPublished
    /\ Cardinality({ t \in transactions : t.amount < 0 }) = 4
    /\ \E i \in DOMAIN autoDetected : autoDetected[i].occurrence_count = 3

\* the gaps of a group pass the consistency gate with the given tolerance (in
\* tenths): sample standard deviation < tolerance * mean
Consistent(G, tenths) ==
    LET iv == IntervalDays(G)
        n  == Len(iv)
        S  == SeqSum(iv)
        Q  == SeqSumSq(iv)
    IN  100 * n * (n * Q - S * S) < tenths * tenths * (n - 1) * S * S

\* C5 (as claimed): a merchant group with at least two gaps and a mean gap in
\* [5, 400] days is reported by the auto-detect path exactly when the standard
\* deviation of its gaps is strictly less than 0.5 times their mean.
C5_ToleranceHalf ==
    RunPublished =>
      \A G \in MerchantGroups :
        LET iv == IntervalDays(G)
        IN  ( /\ Len(iv) >= 2
              /\ SeqSum(iv) >= 5 * Len(iv)
              /\ SeqSum(iv) <= 400 * Len(iv) )
            => ( (\E i \in DOMAIN autoDetected : ChargesOf(autoDetected[i]) = G)
                   <=> Consistent(G, 5) )

\* C6 (as claimed): every subscription of the final list has interval_days of
\* at least 1 and a finite annual_cost.
C6_NoDivisionByZero ==
    RunPublished =>
      \A i \in DOMAIN subscriptions :
        /\ subscriptions[i].interval_days >= 1
        /\ subscriptions[i].annual_cost.finite

\* the label the frequency table gives to an interval
Bucket(d) ==
    CASE d <= 8               -> "weekly"
      [] 9 <= d /\ d <= 16    -> "bi-weekly"
      [] 17 <= d /\ d <= 35   -> "monthly"
      [] 36 <= d /\ d <= 100  -> "quarterly"
      [] 101 <= d /\ d <= 200 -> "semi-annual"
      [] d >= 201             -> "annual"

\* d is the mean of the gaps rounded half up; a mean of zero is read as 30 by
\* the manual path before rounding
IsRoundedMean(d, iv) ==
    LET n == Len(iv)
        S == SeqSum(iv)
    IN  IF S = 0 THEN d = 30
        ELSE n * (2 * d - 1) <= 2 * S /\ 2 * S < n * (2 * d + 1)

\* C7: every subscription produced, detected or manual, has the frequency of
\* the table for d = interval_days = round(avg_interval): weekly up to 8,
\* bi-weekly 9..16, monthly 17..35, quarterly 36..100, semi-annual 101..200,
\* annual from 201; 'unknown' is never output.
C7_FrequencyBuckets ==
    RunPublished =>
      \A i \in DOMAIN subscriptions :
        /\ subscriptions[i].frequency = Bucket(subscriptions[i].interval_days)
        /\ subscriptions[i].frequency # "unknown"
        /\ IsRoundedMean(subscriptions[i].interval_days, IntervalDays(Debits))

\* a subscription of the manual path alone, charged twice 201 days apart, is
\* annual
C7_Witness ==
    /\ RunPublished
    /\ component = "fuzzy"
    /\ autoDetected = <<>>
    /\ \E i \in DOMAIN subscriptions :
         /\ subscriptions[i].is_manual
         /\ subscriptions[i].interval_days = 201
         /\ subscriptions[i].frequency = "annual"

\* C8: every subscription produced, detected or manual, is stale exactly when
\* the days since its last charge exceed max(2 * interval_days, 90); with
\* interval_days = 30, 61 and 90 days are not stale and 91 days are.
C8_StaleThreshold ==
    RunPublished =>
      \A i \in DOMAIN subscriptions :
        LET s == subscriptions[i]
        IN  /\ s.days_since_last
                 = today - SetMax({ t.transaction_date : t \in Debits })
            /\ s.is_stale <=> ( /\ s.days_since_last > 2 * s.interval_days
                                /\ s.days_since_last > 90 )

\* a detected monthly subscription last charged 91 days ago is stale
C8_Witness ==
    /\ RunPublished
    /\ \E i \in DOMAIN autoDetected :
         /\ subscriptions[i].interval_days = 30
         /\ subscriptions[i].days_since_last = 91
         /\ subscriptions[i].is_stale

\* c can be the canonical row of its price: a debit of that price with no
\* earlier one
EarliestOfAmount(c) ==
    /\ c \in Debits
    /\ \A t \in Debits :
         ROUND2(t.amount) = ROUND2(c.amount) => c.transaction_date <= t.transaction_date

\* C9: the clustering rule.  For each rounded amount the canonical description
\* is the uppercased description of an earliest debit of that amount; a debit
\* of that amount is in the canonical group if its uppercased description is
\* similar (> 0.7) to the canonical one, and otherwise in the group of its own
\* uppercased description, whatever other descriptions it resembles; debits
\* of different rounded amounts are never counted in the same group.
C9_ClusteringRule ==
    RunPublished =>
      /\ DOMAIN grouped = Debits
      /\ \A a \in { ROUND2(t.amount) : t \in Debits } :
           \E c \in Debits :
             /\ ROUND2(c.amount) = a
             /\ EarliestOfAmount(c)
             /\ \A t \in Debits :
                  ROUND2(t.amount) = a =>
                    grouped[t] = IF Similar(UPPER(t.description), UPPER(c.description))
                                 THEN UPPER(c.description)
                                 ELSE UPPER(t.description)
      /\ \A i \in DOMAIN autoDetected :
           autoDetected[i].occurrence_count
             = Cardinality({ t \in Debits : /\ grouped[t] = autoDetected[i].merchant_key
                                            /\ -ROUND2(t.amount) = autoDetected[i].amount })

\* two debits of one price are written similarly, neither is similar to the
\* canonical description of the price, and they are in different groups
C9_Witness ==
    /\ RunPublished
    /\ \E c, t, u \in DOMAIN grouped :
         /\ ROUND2(c.amount) = ROUND2(t.amount)
         /\ ROUND2(c.amount) = ROUND2(u.amount)
         /\ EarliestOfAmount(c)
         /\ grouped[c] = UPPER(c.description)
         /\ grouped[t] # grouped[c]
         /\ grouped[u] # grouped[c]
         /\ grouped[t] # grouped[u]
         /\ Similar(UPPER(t.description), UPPER(u.description))

\* C10 (as claimed): with the table, the tag and the clock unchanged, a run
\* that publishes a list after an earlier run has published one publishes the
\* same subscriptions, field for field (their order in the list left aside).
C10_RunsAgree ==
    [][ (published /\ pc # "idle" /\ pc' = "idle" /\ outcome' = "ok")
          => SeqToSet(subscriptions') = SeqToSet(subscriptions) ]_vars

\* the debits that carry the configured tag
TaggedDebits ==
    { t \in transactions : t.amount < 0 /\ Trim(subscriptionTag) \in t.tags }

\* C11: the manual path is relaxed.  With a non-empty tag, the tagged debits
\* of one uppercased description give exactly one manual subscription,
\* is_manual = TRUE, as soon as they are two, whatever the mean and the
\* deviation of their gaps, and none when there is only one; the final list
\* then holds an entry marked manual for that merchant.
C11_ManualRelaxed ==
    (RunPublished /\ component = "fuzzy" /\ Trim(subscriptionTag) # <<>>) =>
      \A k \in { UPPER(t.description) : t \in transactions } :
        LET G == { t \in TaggedDebits : UPPER(t.description) = k }
            E == { i \in DOMAIN manualSubs : manualSubs[i].merchant_key = k }
        IN  IF Cardinality(G) >= 2
            THEN /\ Cardinality(E) = 1
                 /\ \A i \in E :
                      /\ manualSubs[i].is_manual
                      /\ manualSubs[i].occurrence_count = Cardinality(G)
                      /\ \E j \in DOMAIN subscriptions :
                           /\ subscriptions[j].is_manual
                           /\ SameMerchant(subscriptions[j], manualSubs[i])
            ELSE E = {}

\* three tagged charges 1 and 9 days apart (mean 5, deviation above the
\* mean) are not detected and are published as one manual subscription
C11_Witness ==
    /\ RunPublished
    /\ autoDetected = <<>>
    /\ Len(subscriptions) = 1
    /\ subscriptions[1].is_manual
    /\ subscriptions[1].occurrence_count = 3
    /\ IntervalDays(TaggedDebits) \in { <<1, 9>>, <<9, 1>> }

\* C12 (as claimed): a manual subscription made of exactly two tagged charges
\* has interval_days = 30 and is monthly, whatever the gap between the two.
C12_TwoChargesDefaultMonthly ==
    (RunPublished /\ component = "fuzzy") =>
      \A i \in DOMAIN manualSubs :
        manualSubs[i].occurrence_count = 2
          => /\ manualSubs[i].interval_days = 30
             /\ manualSubs[i].frequency = "monthly"

\* the tag is empty or made of blanks only
BlankTag == \A i \in DOMAIN subscriptionTag : subscriptionTag[i] = " "

\* C13: with an empty or blank tag the tagged query is never issued, no manual
\* subscription is produced, and the final list is the auto-detected list,
\* is_manual = FALSE on every entry.
C13_BlankTagNoManualPath ==
    BlankTag =>
      /\ pc # "taggedQuery"
      /\ manualSubs = <<>>
      /\ RunPublished =>
           /\ subscriptions = autoDetected
           /\ \A i \in DOMAIN subscriptions : ~subscriptions[i].is_manual

\* a run with a blank tag has published detected subscriptions from a table
\* that holds tagged charges
C13_Witness ==
    /\ RunPublished
    /\ subscriptionTag = <<" ">>
    /\ subscriptions # <<>>
    /\ \E t \in transactions : DefaultTag \in t.tags

\* c is num / den rounded half up
IsRounded(c, num, den) ==
    den * (2 * c - 1) <= 2 * num /\ 2 * num < den * (2 * c + 1)

\* the charges behind the entry at position j of the final list: those of its
\* group for a detected entry, the tagged debits of its uppercased
\* description for an appended manual entry
ChargesAt(j) ==
    IF j <= Len(autoDetected) THEN ChargesOf(subscriptions[j])
    ELSE { t \in TaggedDebits : UPPER(t.description) = subscriptions[j].merchant_key }

\* C15 (as claimed): the amount of every subscription, detected or manual, is
\* the mean of the absolute amounts of all occurrence_count charges of its
\* group, the first one included, rounded to cents.
C15_AmountIsMeanOfAllCharges ==
    (RunPublished /\ component = "fuzzy") =>
      \A j \in DOMAIN subscriptions :
        /\ Cardinality(ChargesAt(j)) = subscriptions[j].occurrence_count
        /\ IsRounded(subscriptions[j].amount,
                     SumAbsAmount(ChargesAt(j)), 10 * Cardinality(ChargesAt(j)))

\* C18: a run is all-or-nothing.  The published list changes only in the step
\* that ends a run whose queries all succeeded, and is then the merged result
\* of that run; the step that ends a failed run, the tagged query failing
\* after the auto-detect query succeeded included, leaves the list as it was.
C18_AllOrNothing ==
    [][ /\ subscriptions' # subscriptions
          => /\ pc # "idle" /\ pc' = "idle" /\ outcome' = "ok"
             /\ subscriptions' = Merged(autoDetected', manualSubs')
        /\ (pc # "idle" /\ pc' = "idle" /\ outcome' = "failed")
          => subscriptions' = subscriptions ]_vars

\* after a published list, a later run failed in its tagged query: the
\* auto-detect query of that run had succeeded
C18_Witness ==
    /\ published
    /\ pc = "idle"
    /\ outcome = "failed"
    /\ autoDetected # <<>>
    /\ Len(subscriptions) > Len(autoDetected)

\* C14 (as claimed): when the stored tag setting is not a string, once the
\* settings are loaded no tagged query is in flight and no published list
\* holds a manual subscription.
C14_NonStringDisablesManual ==
    (savedTag.kind = "number" /\ mountPc # "loadSettings") =>
      /\ pc # "taggedQuery"
      /\ RunPublished => \A i \in DOMAIN subscriptions : ~subscriptions[i].is_manual

\* C19 (as claimed): once a run and a run started while it was in flight have
\* both published, the list holds the subscriptions of the later-started one,
\* in whatever order their queries resolved.
C19_LaterRunWins ==
    (pc = "idle" /\ pcB = "idle" /\ outcome = "ok" /\ outcomeB = "ok")
      => SeqToSet(subscriptions) = SeqToSet(resultB)

\* the subscription matches the search text, if there is one
MatchesSearch(s) ==
    searchQuery = <<>> \/ Includes(toLowerCase(s.merchant), toLowerCase(searchQuery))

\* C16: the hidden round trip.  Once hideSubscription(s) has succeeded, also
\* after detection has run again on the unchanged table, s is still in the
\* full list and, with 'show hidden' off, not in the visible subset; once
\* unhideSubscription(s) has succeeded the hidden set is what it was before
\* the hide and s is in the visible subset again (if it matches the search
\* text).
C16_HiddenRoundTrip ==
    /\ trip.stage = "hidden" =>
         \A s \in trip.subs :
           /\ s \in SeqToSet(subscriptions)
           /\ ~showHidden => s \notin SeqToSet(visibleSubscriptions)
    /\ trip.stage = "restored" =>
         /\ hiddenMerchantKeys = trip.before
         /\ hiddenTable = trip.before
         /\ \A s \in trip.subs :
              /\ s \in SeqToSet(subscriptions)
              /\ MatchesSearch(s) => s \in SeqToSet(visibleSubscriptions)

\* a subscription was hidden while another was hidden already, detection
\* ran again, and it was restored: it is listed again with 'show hidden' off
C16_Witness ==
    /\ trip.stage = "restored"
    /\ trip.rerun
    /\ trip.before # {}
    /\ ~showHidden
    /\ \E s \in trip.subs : s \in SeqToSet(visibleSubscriptions)

\* the positions of the list whose merchant is not hidden
NotHidden ==
    { i \in DOMAIN subscriptions : subscriptions[i].merchant_key \notin hiddenMerchantKeys }

\* C17: in every state the total annual cost is the sum of annual_cost over
\* the subscriptions neither hidden nor stale, the total monthly cost is that
\* sum / 12, and the total year-to-date cost is the sum of ytd_cost over the
\* subscriptions not hidden, stale ones included; the toggle and the search
\* text play no part.
C17_Totals ==
    LET Active == { i \in NotHidden : ~subscriptions[i].is_stale }
    IN  /\ totalAnnualCost.finite
             <=> \A i \in Active : subscriptions[i].annual_cost.finite
        /\ totalAnnualCost.finite =>
             totalAnnualCost.cents
               = SumOver(Active, [i \in Active |-> subscriptions[i].annual_cost.cents])
        /\ totalMonthlyCost.finite = totalAnnualCost.finite
        /\ 12 * totalMonthlyCost.num = totalAnnualCost.cents * totalMonthlyCost.den
        /\ totalYTDCost
             = SumOver(NotHidden, [i \in NotHidden |-> subscriptions[i].ytd_cost])

\* of two subscriptions the active one is hidden and the other is stale, with
\* hidden ones shown and a search text: nothing counts for the annual total,
\* the stale one counts for the year to date
C17_Witness ==
    /\ Len(subscriptions) = 2
    /\ showHidden
    /\ searchQuery # <<>>
    /\ \E i, j \in DOMAIN subscriptions :
         /\ i \notin NotHidden /\ ~subscriptions[i].is_stale
         /\ j \in NotHidden /\ subscriptions[j].is_stale
         /\ subscriptions[i].ytd_cost > 0
         /\ totalYTDCost = subscriptions[j].ytd_cost
    /\ totalAnnualCost.cents = 0
    /\ totalYTDCost > 0

\* every list a run can compute from the table, the clock and the tag it read
DetectionResults(tag) ==
    UNION { { Merged(MapSeq(rows, AutoSubscription), MapSeq(trows, ManualSubscription)) :
                rows \in SUBSCRIPTION_SQL(transactions, today, canon),
                trows \in IF tag = <<>> THEN { <<>> }
                          ELSE TAGGED_SQL(transactions, today, tag) } :
            canon \in canonical_merchants(transactions) }

\* C20: detection and visibility writes do not interfere.  A step of a
\* detection run changes neither the hidden set in memory nor the stored one,
\* and the list it publishes is one the table, the clock and the tag give,
\* whatever is hidden; a step of hideSubscription or unhideSubscription
\* changes neither the list nor the run in flight.
C20_NoInterference ==
    [][ /\ (subscriptions' # subscriptions \/ pc' # pc)
          => /\ hiddenMerchantKeys' = hiddenMerchantKeys
             /\ hiddenTable' = hiddenTable
             /\ visOp' = visOp
        /\ (pc # "idle" /\ pc' = "idle" /\ outcome' = "ok")
          => subscriptions' \in DetectionResults(tagUsed')
        /\ (hiddenMerchantKeys' # hiddenMerchantKeys \/ hiddenTable' # hiddenTable
              \/ visOp' # visOp)
          => /\ subscriptions' = subscriptions
             /\ runVars' = runVars
             /\ isLoading' = isLoading ]_vars

\* a hide succeeded while a run was awaiting a query, and that run then
\* published a list that still holds the hidden subscription
C20_Witness ==
    /\ trip.stage = "hidden"
    /\ trip.during # "idle"
    /\ trip.rerun
    /\ \E s \in trip.subs : s \in SeqToSet(subscriptions)

\* C21 (as claimed): a result row with a missing field is left out of the
\* list, so that no entry of a published list has a null last_charge or a
\* null first_charge.
C21_IncompleteRowsExcluded ==
    RunPublished =>
      \A i \in DOMAIN subscriptions :
        /\ subscriptions[i].last_charge # NULL
        /\ subscriptions[i].first_charge # NULL

RECURSIVE CollapseBlanks(_)
\* every run of blanks replaced by one blank
CollapseBlanks(s) ==
    IF Len(s) < 2 THEN s
    ELSE IF s[1] = " " /\ s[2] = " " THEN CollapseBlanks(Tail(s))
    ELSE <<Head(s)>> \o CollapseBlanks(Tail(s))

\* the key the normalizer is said to give: uppercased, blanks at the ends
\* removed, inner runs of blanks collapsed
NormalKey(s) == CollapseBlanks(Trim(UPPER(s)))

\* C22 (as claimed): descriptions that differ only in letter case or in
\* blanks have the same key: debits of one price so written are in the same
\* merchant group of the auto-detect path, and tagged debits so written are
\* counted in one group of the manual path.
C22_NormalizerInsensitive ==
    (RunPublished /\ component = "fuzzy") =>
      /\ \A t, u \in DOMAIN grouped :
           ( /\ NormalKey(t.description) = NormalKey(u.description)
             /\ ROUND2(t.amount) = ROUND2(u.amount) )
             => grouped[t] = grouped[u]
      /\ \A t \in TaggedDebits :
           LET G == { u \in TaggedDebits :
                        NormalKey(u.description) = NormalKey(t.description) }
           IN  Cardinality(G) >= 2 =>
                 \E i \in DOMAIN manualSubs :
                   /\ NormalKey(manualSubs[i].merchant_key) = NormalKey(t.description)
                   /\ manualSubs[i].occurrence_count = Cardinality(G)

\* C23 (as claimed): for every subscription, detected or manual, first_charge
\* is the date of the earliest charge of its group and last_charge the date
\* of the latest, so that the days between them are the sum of all the
\* occurrence_count - 1 gaps.
C23_FirstChargeIsEarliest ==
    (RunPublished /\ component = "fuzzy") =>
      \A j \in DOMAIN subscriptions :
        /\ subscriptions[j].first_charge = MinDate(ChargesAt(j))
        /\ subscriptions[j].last_charge = MaxDate(ChargesAt(j))
        /\ subscriptions[j].last_charge - subscriptions[j].first_charge
             = SeqSum(IntervalDays(ChargesAt(j)))

\* C24 (as claimed): merchant_key identifies one subscription.  The step in
\* which a hide succeeds takes exactly the hidden entry out of the entries
\* that are not hidden (the visible subset and the totals), and leaves every
\* other entry where it was, an entry of the same merchant at another price
\* included.
C24_HideRemovesOneEntry ==
    [][ (visOp.kind = "hide" /\ hiddenMerchantKeys' # hiddenMerchantKeys)
          => \E i \in NotHidden :
               /\ subscriptions[i] \in visOp.subs
               /\ NotHidden' = NotHidden \ {i} ]_vars

\* C26 (as claimed): isLoading is true in every state in which a detection
\* run is in flight, overlapping runs included.
C26_LoadingWhileInFlight ==
    (pc # "idle" \/ pcB # "idle") => isLoading

\* C29 (as claimed): every detection run uses the last saved tag.  The step
\* in which a run reads the tag (its first query resolving) reads the tag
\* stored in the settings, also after the tag field was edited and the panel
\* cancelled.
C29_RunsUseSavedTag ==
    [][ /\ (pc = "autoQuery"
              /\ (pc' = "taggedQuery" \/ (pc' = "idle" /\ outcome' = "ok")))
            => tagUsed' = tagToUse(savedTag.value)
        /\ (pcB = "autoQuery"
              /\ (pcB' = "taggedQuery" \/ (pcB' = "idle" /\ outcomeB' = "ok")))
            => tagUsedB' = tagToUse(savedTag.value) ]_vars

\* a hide or an unhide is awaiting sdk.execute
VisInFlight == visOp.kind # "none" \/ InFlightB

\* C25 (as claimed): the hidden set in memory is coherent with the store.
\* After a successful initial load, whenever no hide or unhide is in flight,
\* the keys in memory are the keys stored, whatever the interleaving of the
\* calls, of their store writes and of their completions.
C25_CacheCoherent ==
    (mountPc = "done" /\ ~VisInFlight) => hiddenMerchantKeys = hiddenTable

\* C27: a failed store write changes nothing.  The step in which a hide or
\* an unhide is rejected leaves the hidden set in memory, the store and the
\* list as they were, and the hidden set in memory changes only in the step
\* that completes a call whose statement has run in the store.
C27_FailedWriteChangesNothing ==
    [][ /\ (visOpB.stage = "issued" /\ visOpB'.stage = "failed")
            => /\ hiddenMerchantKeys' = hiddenMerchantKeys
               /\ hiddenTable' = hiddenTable
               /\ subscriptions' = subscriptions
        /\ ( /\ visOp.kind # "none"
             /\ visOp' = NoOp
             /\ (visOp.kind = "hide") = (OpKey \notin hiddenTable') )
            => /\ hiddenMerchantKeys' = hiddenMerchantKeys
               /\ hiddenTable' = hiddenTable
               /\ subscriptions' = subscriptions
        /\ hiddenMerchantKeys' # hiddenMerchantKeys
            => \/ /\ visOp.kind # "none"
                  /\ visOp' = NoOp
                  /\ (visOp.kind = "hide") = (OpKey \in hiddenTable')
               \/ /\ visOpB.stage = "written"
                  /\ visOpB'.stage = "idle" ]_vars

\* a restore was rejected: the subscription is still hidden, in memory and
\* in the store, and still listed
C27_Witness ==
    /\ visOpB.stage = "failed"
    /\ visOpB.kind = "unhide"
    /\ OpKeyB \in hiddenMerchantKeys
    /\ OpKeyB \in hiddenTable
    /\ \E s \in visOpB.subs : s \in SeqToSet(subscriptions)

\* C28 (as claimed): the header counts partition the list: the number of
\* active, of inactive and of hidden subscriptions add up to the length of
\* the list.
C28_CountsPartitionList ==
    activeCount + staleCount + hiddenCount = Len(subscriptions)

\* C30 (as claimed): the cursor stays in bounds: 0 <= cursorIndex and
\* cursorIndex <= max(0, number of displayed subscriptions - 1), whatever
\* keys are pressed, also on an empty list.
C30_CursorInBounds ==
    /\ 0 <= cursorIndex
    /\ cursorIndex <= Max2(0, DisplayedCount - 1)

====
